---- MODULE Spec2Model ----
(***************************************************************************)
(* cvisa: the command specification and execution engine                   *)
(* (InstrumentDriver) on top of the VISA session wrapper (VisaInterface).  *)
(*                                                                         *)
(* Text is modelled as a sequence of one-character strings.  The VISA      *)
(* library and the instrument behind it are the environment: every VISA    *)
(* call returns a status chosen from the statuses the library can return,  *)
(* and the instrument answers each query it received, oldest first.        *)
(***************************************************************************)
EXTENDS Integers, Sequences, FiniteSets, TLC

\* ------------------------------------------------------------------ bounds
MaxOutQ  == 1      \* responses the instrument keeps queued for reading
MaxChain == 3      \* longest command list handed to executeCommandChain

\* ------------------------------------------------------------------ text
VI_NULL == 0

Letters == <<"A", "B", "C", "D", "E", "F", "G", "H", "I", "J", "K", "L", "M",
             "N", "O", "P", "Q", "R", "S", "T", "U", "V", "W", "X", "Y", "Z">>

DigitChars == <<"0", "1", "2", "3", "4", "5", "6", "7", "8", "9">>

\* the character with code w, for the 7-bit codes the model uses
Chr(w) == IF w \in 65..90 THEN Letters[w - 64] ELSE "?"

\* decimal digits of a natural number (what %d prints for n >= 0)
RECURSIVE DecDigits(_)
DecDigits(n) ==
    IF n < 10 THEN <<DigitChars[n + 1]>>
    ELSE DecDigits(n \div 10) \o <<DigitChars[(n % 10) + 1]>>

\* what the conversion %d prints
DecStr(n) == IF n < 0 THEN <<"-">> \o DecDigits(0 - n) ELSE DecDigits(n)

\* position of the first occurrence of pat in s (0-based), or -1 (npos)
Find(s, pat) ==
    LET hits == {i \in 1..(Len(s) - Len(pat) + 1) :
                    SubSeq(s, i, i + Len(pat) - 1) = pat}
    IN IF hits = {} THEN 0 - 1
       ELSE (CHOOSE i \in hits : \A j \in hits : i <= j) - 1

\* " \t\n\r\f\v"; the vertical tab has no escape here and is written VT
Whitespace == {" ", "\t", "\n", "\r", "\f", "VT"}

\* trim(): strips leading and trailing whitespace
trim(s) ==
    LET keep == {i \in 1..Len(s) : s[i] \notin Whitespace}
    IN IF keep = {} THEN <<>>
       ELSE LET start == CHOOSE i \in keep : \A j \in keep : i <= j
                end   == CHOOSE i \in keep : \A j \in keep : i >= j
            IN SubSeq(s, start, end)

\* ------------------------------------------------------------------ snprintf
\* Values a variadic argument can take.  200 is a wide character that has no
\* multibyte encoding in the "C" locale.
ArgVals == {65, 200}

ArgLists == {<<>>, <<65>>, <<200>>}

NegResult == [neg |-> TRUE, out |-> <<>>]

Emit(s, r) == IF r.neg THEN r ELSE [neg |-> FALSE, out |-> s \o r.out]

\* std::snprintf(nullptr, 0, fmt, args...): the set of results the call can
\* have; neg stands for a negative return value.  A conversion that finds no
\* argument left reads an indeterminate value (undefined behaviour): any
\* value of ArgVals.  %lc of a wide character that has no encoding fails
\* (EILSEQ) and makes the whole call return a negative value.
RECURSIVE snprintf(_, _)
snprintf(fmt, args) ==
    IF fmt = <<>> THEN {[neg |-> FALSE, out |-> <<>>]}
    ELSE IF Head(fmt) # "%"
    THEN {Emit(<<Head(fmt)>>, r) : r \in snprintf(Tail(fmt), args)}
    ELSE LET rest  == Tail(fmt)
             vals  == IF args = <<>> THEN ArgVals ELSE {Head(args)}
             nargs == IF args = <<>> THEN <<>> ELSE Tail(args)
         IN IF rest = <<>> THEN {NegResult}
            ELSE IF Head(rest) = "d"
            THEN UNION {{Emit(DecStr(v), r) : r \in snprintf(Tail(rest), nargs)}
                        : v \in vals}
            ELSE IF Len(rest) >= 2 /\ rest[1] = "l" /\ rest[2] = "c"
            THEN UNION {IF v < 128
                        THEN {Emit(<<Chr(v)>>, r)
                              : r \in snprintf(SubSeq(rest, 3, Len(rest)), nargs)}
                        ELSE {NegResult}
                        : v \in vals}
            ELSE IF Head(rest) = "%"
            THEN {Emit(<<"%">>, r) : r \in snprintf(Tail(rest), args)}
            ELSE {NegResult}

\* InstrumentDriver::formatCommand: the formatted command, or
\* std::runtime_error when snprintf returns a negative size
formatCommand(cmd_format, args) ==
    {IF r.neg THEN [kind |-> "runtime_error", text |-> <<>>]
              ELSE [kind |-> "ok", text |-> r.out]
     : r \in snprintf(cmd_format, args)}

\* ------------------------------------------------------------------ parsing
INT_MAX == 2147483647

DBL_MAX_10_EXP == 308

DBL_MIN_10_EXP == 0 - 323

IsDigit(c) == \E i \in 1..10 : DigitChars[i] = c

DigitVal(c) == (CHOOSE i \in 1..10 : DigitChars[i] = c) - 1

\* the value of a run of decimal digits (0 for the empty run)
RECURSIVE DecVal(_)
DecVal(d) ==
    IF d = <<>> THEN 0
    ELSE 10 * DecVal(SubSeq(d, 1, Len(d) - 1)) + DigitVal(d[Len(d)])

\* number of leading characters of s that satisfy isspace
LeadingSpaces(s) ==
    CHOOSE n \in 0..Len(s) :
        /\ \A i \in 1..n : s[i] \in Whitespace
        /\ n < Len(s) => s[n + 1] \notin Whitespace

\* number of leading characters of s that are decimal digits
LeadingDigits(s) ==
    CHOOSE n \in 0..Len(s) :
        /\ \A i \in 1..n : IsDigit(s[i])
        /\ n < Len(s) => ~IsDigit(s[n + 1])

Drop(s, n) == SubSeq(s, n + 1, Len(s))

\* an optional sign at the head of s: its factor and what follows it
Signed(s) ==
    IF s # <<>> /\ Head(s) = "-" THEN [sign |-> 0 - 1, rest |-> Tail(s)]
    ELSE IF s # <<>> /\ Head(s) = "+" THEN [sign |-> 1, rest |-> Tail(s)]
    ELSE [sign |-> 1, rest |-> s]

\* a value handed back to the caller: an int (n), a double (n * 10^e), a bool
\* (b) or a string (s)
Val(t, n, e, s, b) == [t |-> t, n |-> n, e |-> e, s |-> s, b |-> b]

NoVal == Val("none", 0, 0, <<>>, FALSE)

\* what parseResponse hands back: the value, or the exception it leaves with
\* and that exception's message
Parsed(v) == [kind |-> "ok", val |-> v, what |-> <<>>]

ParseThrows(exc, what) == [kind |-> exc, val |-> NoVal, what |-> what]

\* a run of digits without its leading zeros
StripZeros(d) ==
    LET nz == {i \in 1..Len(d) : d[i] # "0"}
    IN IF nz = {} THEN <<>>
       ELSE SubSeq(d, CHOOSE i \in nz : \A j \in nz : i <= j, Len(d))

\* the digits of INT_MAX + 1, the magnitude of the smallest int
IntMinDigits == <<"2", "1", "4", "7", "4", "8", "3", "6", "4", "8">>

\* the run of digits d stands for a magnitude above INT_MAX
AboveIntMax(d) ==
    LET z == StripZeros(d)
    IN \/ Len(z) > 10
       \/ /\ Len(z) = 10
          /\ \/ DecVal(SubSeq(z, 1, 9)) > INT_MAX \div 10
             \/ /\ DecVal(SubSeq(z, 1, 9)) = INT_MAX \div 10
                /\ DigitVal(z[10]) > INT_MAX % 10

\* std::stoi(response): leading whitespace and a sign are accepted, the digits
\* that follow are converted, whatever comes after them is ignored;
\* std::invalid_argument if there is no digit, std::out_of_range if the value
\* does not fit an int
stoi(response) ==
    LET sg == Signed(Drop(response, LeadingSpaces(response)))
        k  == LeadingDigits(sg.rest)
        d  == SubSeq(sg.rest, 1, k)
    IN IF k = 0 THEN ParseThrows("invalid_argument", <<"s", "t", "o", "i">>)
       ELSE IF ~AboveIntMax(d)
       THEN Parsed(Val("int", sg.sign * DecVal(StripZeros(d)), 0, <<>>, FALSE))
       ELSE IF sg.sign < 0 /\ StripZeros(d) = IntMinDigits
       THEN Parsed(Val("int", 0 - INT_MAX - 1, 0, <<>>, FALSE))
       ELSE ParseThrows("out_of_range", <<"s", "t", "o", "i">>)

\* the optional fraction at the head of r: its digits and what follows them
Fraction(r) ==
    IF r # <<>> /\ Head(r) = "."
    THEN LET k == LeadingDigits(Tail(r))
         IN [digits |-> SubSeq(Tail(r), 1, k), rest |-> Drop(Tail(r), k)]
    ELSE [digits |-> <<>>, rest |-> r]

\* the optional exponent at the head of r: its value, or huge when it has more
\* than four significant digits
Exponent(r) ==
    IF r # <<>> /\ Head(r) \in {"e", "E"}
    THEN LET es == Signed(Tail(r))
             xd == StripZeros(SubSeq(es.rest, 1, LeadingDigits(es.rest)))
         IN IF Len(xd) > 4 THEN [huge |-> TRUE, ex |-> 0]
            ELSE [huge |-> FALSE, ex |-> es.sign * DecVal(xd)]
    ELSE [huge |-> FALSE, ex |-> 0]

\* the double of sign, significant digits z of which kf are fraction digits,
\* and exponent x: n * 10^e with n the leading nine digits of z;
\* std::out_of_range if the magnitude is outside the doubles
ToDouble(sign, z, kf, x) ==
    LET cut == IF Len(z) > 9 THEN Len(z) - 9 ELSE 0
        mag == Len(z) + x.ex - kf - 1
    IN IF z = <<>> THEN Parsed(Val("double", 0, 0, <<>>, FALSE))
       ELSE IF x.huge \/ mag > DBL_MAX_10_EXP \/ mag < DBL_MIN_10_EXP - 1
       THEN ParseThrows("out_of_range", <<"s", "t", "o", "d">>)
       ELSE Parsed(Val("double", sign * DecVal(SubSeq(z, 1, Len(z) - cut)),
                       x.ex - kf + cut, <<>>, FALSE))

\* std::stod(response) on decimal text: whitespace, sign, digits, an optional
\* fraction and an optional exponent; std::invalid_argument if there is no
\* digit
stod(response) ==
    LET sg == Signed(Drop(response, LeadingSpaces(response)))
        ki == LeadingDigits(sg.rest)
        f  == Fraction(Drop(sg.rest, ki))
    IN IF ki + Len(f.digits) = 0 THEN ParseThrows("invalid_argument", <<"s", "t", "o", "d">>)
       ELSE ToDouble(sg.sign, StripZeros(SubSeq(sg.rest, 1, ki) \o f.digits),
                     Len(f.digits), Exponent(f.rest))

\* the types queryAndParse<T> is instantiated with
ParseTypes == {"string", "double", "int", "bool"}

\* parseResponse<bool> looking for the character 1 only
parseResponseBoolOnlyOne(response) ==
    Parsed(Val("bool", 0, 0, <<>>, Find(response, <<"1">>) # 0 - 1))

\* InstrumentDriver::parseResponse(type_tag<bool>, response)
parseResponseBool(response) ==
    Parsed(Val("bool", 0, 0, <<>>,
               Find(response, <<"1">>) # 0 - 1 \/ Find(response, <<"O", "N">>) # 0 - 1))

\* the head of the message of the CommandException of parseResponse<double>
FailedToParseDouble ==
    <<"F", "a", "i", "l", "e", "d", " ", "t", "o", " ", "p", "a", "r", "s",
      "e", " ", "d", "o", "u", "b", "l", "e", " ", "f", "r", "o", "m", " ",
      "i", "n", "s", "t", "r", "u", "m", "e", "n", "t", " ", "r", "e", "s",
      "p", "o", "n", "s", "e", ":", " ", "\"">>

\* the head of the message of the CommandException of parseResponse<int>
FailedToParseInt ==
    <<"F", "a", "i", "l", "e", "d", " ", "t", "o", " ", "p", "a", "r", "s",
      "e", " ", "i", "n", "t", " ", "f", "r", "o", "m", " ", "i", "n", "s",
      "t", "r", "u", "m", "e", "n", "t", " ", "r", "e", "s", "p", "o", "n",
      "s", "e", ":", " ", "\"">>

\* InstrumentDriver::parseResponse<T>(response): stod and stoi have their
\* std::invalid_argument turned into CommandException, nothing else is caught
parseResponse(T, response) ==
    IF T = "string" THEN Parsed(Val("string", 0, 0, response, FALSE))
    ELSE IF T = "bool" THEN parseResponseBool(response)
    ELSE LET p == IF T = "double" THEN stod(response) ELSE stoi(response)
         IN IF p.kind = "invalid_argument"
            THEN ParseThrows("CommandException",
                             (IF T = "double" THEN FailedToParseDouble
                              ELSE FailedToParseInt) \o response \o <<"\"">>)
            ELSE p

\* ------------------------------------------------------------------ commands
CommandType == {"WRITE", "QUERY"}

ResponseType == {"NONE", "STRING", "DOUBLE", "INTEGER", "BOOLEAN"}

\* CommandSpec(cmd, t, rt, delay): construction never fails and checks nothing
CommandSpec(cmd, t, rt, delay) ==
    [command |-> cmd, type |-> t, responseType |-> rt, delay_ms |-> delay]

\* the driver catalogue the model draws from (ThermalAir-style commands,
\* abbreviated to a few characters)
setFlowOn   == CommandSpec(<<"F", "1">>, "WRITE", "NONE", 0)
setHeadDown == CommandSpec(<<"H", "1">>, "WRITE", "NONE", 0)
setSoakTime == CommandSpec(<<"S", "%", "d">>, "WRITE", "NONE", 0)
setLabel    == CommandSpec(<<"L", "%", "l", "c">>, "WRITE", "NONE", 0)
getTemperature == CommandSpec(<<"T", "?">>, "QUERY", "DOUBLE", 0)
getChannel  == CommandSpec(<<"M", "%", "l", "c", "?">>, "QUERY", "INTEGER", 5)
getIdentification == CommandSpec(<<"*", "I", "?">>, "QUERY", "STRING", 0)

Catalogue == {setFlowOn, setHeadDown, setSoakTime, setLabel, getTemperature, getChannel}

ChainSpecs == {setFlowOn, setHeadDown, setSoakTime, getTemperature}

Delimiters == {<<";">>, <<",">>}

SYST_ERR == <<"S", "Y", "S", "T", ":", "E", "R", "R", "?">>

RawCommands == {<<"F", "1">>, <<"T", "?">>}

SeqsUpTo(S, n) == UNION {[1..k -> S] : k \in 0..n}

\* ------------------------------------------------------------------ VISA
\* statuses viWrite / viRead / viClear / viReadSTB can return on a live session
IoStatuses == {"VI_SUCCESS", "VI_ERROR_TMO", "VI_ERROR_CONN_LOST",
               "VI_ERROR_NLISTENERS", "VI_ERROR_IO"}

\* statuses of viOpenDefaultRM and viOpen
OpenStatuses == {"VI_SUCCESS", "VI_ERROR_RSRC_NFOUND"}

\* statuses of viSetAttribute
AttrStatuses == {"VI_SUCCESS", "VI_ERROR_NSUP_ATTR"}

\* status < VI_SUCCESS
Failing(status) == status # "VI_SUCCESS"

\* VisaInterface::checkStatus: the exception thrown for a status, or "ok"
checkStatus(status) ==
    IF ~Failing(status) THEN "ok"
    ELSE IF status = "VI_ERROR_TMO" THEN "TimeoutException"
    ELSE IF status \in {"VI_ERROR_RSRC_NFOUND", "VI_ERROR_RSRC_LOCKED",
                        "VI_ERROR_CONN_LOST"}
    THEN "ConnectionException"
    ELSE IF status \in {"VI_ERROR_INV_EXPR", "VI_ERROR_NLISTENERS"}
    THEN "CommandException"
    ELSE "VisaException"

\* attributes of a freshly opened VISA instrument session
DefaultAttrs == [TMO_VALUE |-> 2000, TERMCHAR |-> "\n", TERMCHAR_EN |-> FALSE,
                 SEND_END_EN |-> TRUE]

\* the handle viOpenDefaultRM / viOpen hands out: the lowest one not in use
NewHandle(live) ==
    CHOOSE h \in 1..(Cardinality(live) + 1) :
        h \notin live /\ \A k \in 1..(h - 1) : k \in live

\* ------------------------------------------------------------------ instrument
NoError         == <<"+", "0", ",", "N", "\n">>
UndefinedHeader == <<"-", "1", "1", "3", ",", "U", "\n">>
QueueOverflow   == <<"-", "3", "5", "0", ",", "+", "0", "\n">>
Reading         == <<"1", "\n">>

\* responses to *IDN? the decoder is exercised on: "ACME,1.0\n", " 12.345\n",
\* "abc", "", "99999999999\n", "1e999\n", "ON\n", "0\n", "OFF", "10",
\* "-7\r\n"
ParseReplies ==
    {<<"A", "C", "M", "E", ",", "1", ".", "0", "\n">>,
     <<" ", "1", "2", ".", "3", "4", "5", "\n">>,
     <<"a", "b", "c">>,
     <<>>,
     <<"9", "9", "9", "9", "9", "9", "9", "9", "9", "9", "9", "\n">>,
     <<"1", "e", "9", "9", "9", "\n">>,
     <<"O", "N", "\n">>,
     <<"0", "\n">>,
     <<"O", "F", "F">>,
     <<"1", "0">>,
     <<"-", "7", "\r", "\n">>}

\* what the instrument can answer to a query it received
Replies(c) == IF c = SYST_ERR THEN {NoError, UndefinedHeader, QueueOverflow}
              ELSE IF c = getIdentification.command THEN ParseReplies
              ELSE {Reading}

IsQueryText(c) == \E i \in 1..Len(c) : c[i] = "?"

\* the instrument queues one response per query it receives; when the queue
\* is full the oldest unread response is discarded
Receive(q, c) ==
    IF ~IsQueryText(c) THEN q
    ELSE IF Len(q) < MaxOutQ THEN Append(q, c)
    ELSE Append(Tail(q), c)

\* ------------------------------------------------------------------ state
\* the std::async tasks that can be in flight at the same time
Tasks == {"t1"}

Procs == {"main"} \cup Tasks

VARIABLES
    sess,   \* the VisaInterface / InstrumentDriver object's fields
    visa,   \* the VISA library: open handles, attributes of the instrument session
    outq,   \* the instrument: queries received and not yet read back, oldest first
    proc,   \* the caller's thread ("main") and the std::async tasks
    other   \* a second VisaInterface object, the other side of a move

vars == <<sess, visa, outq, proc, other>>

NoSpec == CommandSpec(<<>>, "WRITE", "NONE", 0)

NoOutcome == [kind |-> "none", text |-> <<>>]

\* a thread that is not inside any operation
IdleProc ==
    [pc |-> "idle", name |-> "none", spec |-> NoSpec, args |-> <<>>,
     chain |-> <<>>, delimiter |-> <<>>, command |-> <<>>, delay_ms |-> 0,
     reads |-> FALSE, phase |-> "cmd", prim |-> "none", response |-> <<>>,
     respFor |-> <<>>, errResponse |-> <<>>, outcome |-> NoOutcome,
     trace |-> <<>>, connAtCall |-> FALSE, autoAtCall |-> FALSE, future |-> "",
     parseAs |-> "none", value |-> NoVal]

\* VisaInterface::VisaInterface()
DefaultSession ==
    [m_resourceName |-> "", m_timeout_ms |-> 0, m_timeout_ms_set |-> FALSE,
     m_read_termination |-> "\n", m_read_termination_set |-> FALSE,
     m_write_termination |-> "\n", m_write_termination_set |-> FALSE,
     m_resourceManagerHandle |-> VI_NULL, m_instrumentHandle |-> VI_NULL,
     m_autoErrorCheckEnabled |-> FALSE]

\* the second object before its construction and after its destruction
NoObject == [alive |-> FALSE, obj |-> DefaultSession]

Init ==
    /\ other = NoObject
    /\ sess = DefaultSession
    /\ visa = [live |-> {}, attr |-> DefaultAttrs]
    /\ outq = <<>>
    /\ proc = [p \in Procs |-> IdleProc]

\* VisaInterface::isConnected
isConnectedS(s) == s.m_instrumentHandle # VI_NULL

isConnected == isConnectedS(sess)

\* ------------------------------------------------------------------ configuration
\* The setters work on the pair (session fields, VISA state) and report the
\* exception they leave with; sts are the statuses of their viSetAttribute calls.
Cfg(s, v, exc) == [s |-> s, v |-> v, exc |-> exc]

SetAttr(v, name, value) == [v EXCEPT !.attr[name] = value]

\* VisaInterface::setTimeout
setTimeout(c, timeout_ms, st) ==
    LET s1 == [c.s EXCEPT !.m_timeout_ms = timeout_ms, !.m_timeout_ms_set = TRUE]
    IN IF ~isConnectedS(s1) THEN Cfg(s1, c.v, "ok")
       ELSE IF Failing(st) THEN Cfg(s1, c.v, checkStatus(st))
       ELSE Cfg(s1, SetAttr(c.v, "TMO_VALUE", timeout_ms), "ok")

\* VisaInterface::setReadTermination
setReadTermination(c, term_char, enable, st1, st2) ==
    LET s1 == [c.s EXCEPT !.m_read_termination = term_char,
                          !.m_read_termination_set = enable]
    IN IF ~isConnectedS(s1) THEN Cfg(s1, c.v, "ok")
       ELSE IF Failing(st1) THEN Cfg(s1, c.v, checkStatus(st1))
       ELSE LET v1 == SetAttr(c.v, "TERMCHAR", term_char)
            IN IF Failing(st2) THEN Cfg(s1, v1, checkStatus(st2))
               ELSE Cfg(s1, SetAttr(v1, "TERMCHAR_EN", enable), "ok")

\* VisaInterface::setWriteTermination
setWriteTermination(c, term_char, st1, st2) ==
    LET s1 == [c.s EXCEPT !.m_write_termination = term_char,
                          !.m_write_termination_set = TRUE]
    IN IF ~isConnectedS(s1) THEN Cfg(s1, c.v, "ok")
       ELSE IF Failing(st1) THEN Cfg(s1, c.v, checkStatus(st1))
       ELSE LET v1 == SetAttr(c.v, "TERMCHAR", term_char)
            IN IF Failing(st2) THEN Cfg(s1, v1, checkStatus(st2))
               ELSE Cfg(s1, SetAttr(v1, "SEND_END_EN", TRUE), "ok")

\* VisaInterface::applyConfiguration
applyConfiguration(c, sts) ==
    LET c1 == IF c.s.m_timeout_ms_set
              THEN setTimeout(c, c.s.m_timeout_ms, sts[1]) ELSE c
        c2 == IF c1.exc # "ok" THEN c1
              ELSE IF c1.s.m_read_termination_set
              THEN setReadTermination(c1, c1.s.m_read_termination, TRUE,
                                      sts[2], sts[3])
              ELSE c1
    IN IF c2.exc # "ok" THEN c2
       ELSE IF c2.s.m_write_termination_set
       THEN setWriteTermination(c2, c2.s.m_write_termination, sts[4], sts[5])
       ELSE c2

\* connect without the test that makes it a no-op on a connected session
connectReopen(s, v, stRM, stOpen, sts) ==
    IF s.m_resourceName = "" THEN Cfg(s, v, "ConnectionException")
    ELSE IF Failing(stRM) THEN Cfg(s, v, "ConnectionException")
    ELSE LET rm == NewHandle(v.live)
             v1 == [v EXCEPT !.live = @ \cup {rm}]
         IN IF Failing(stOpen)
            THEN Cfg([s EXCEPT !.m_resourceManagerHandle = VI_NULL], v, "ConnectionException")
            ELSE LET ih == NewHandle(v1.live)
                     v2 == [v1 EXCEPT !.live = @ \cup {ih}, !.attr = DefaultAttrs]
                     s2 == [s EXCEPT !.m_resourceManagerHandle = rm,
                                     !.m_instrumentHandle = ih]
                 IN applyConfiguration(Cfg(s2, v2, "ok"), sts)

\* VisaInterface::connect; stRM and stOpen are the statuses of viOpenDefaultRM
\* and viOpen
connect(s, v, stRM, stOpen, sts) ==
    IF isConnectedS(s) THEN Cfg(s, v, "ok")
    ELSE IF s.m_resourceName = "" THEN Cfg(s, v, "ConnectionException")
    ELSE IF Failing(stRM) THEN Cfg(s, v, "ConnectionException")
    ELSE LET rm == NewHandle(v.live)
             v1 == [v EXCEPT !.live = @ \cup {rm}]
         IN IF Failing(stOpen)
            THEN Cfg([s EXCEPT !.m_resourceManagerHandle = VI_NULL], v, "ConnectionException")
            ELSE LET ih == NewHandle(v1.live)
                     v2 == [v1 EXCEPT !.live = @ \cup {ih}, !.attr = DefaultAttrs]
                     s2 == [s EXCEPT !.m_resourceManagerHandle = rm,
                                     !.m_instrumentHandle = ih]
                 IN applyConfiguration(Cfg(s2, v2, "ok"), sts)

\* disconnect leaving the resource manager session open
disconnectKeepRM(s, v) ==
    IF ~isConnectedS(s) THEN Cfg(s, v, "ok")
    ELSE Cfg([s EXCEPT !.m_instrumentHandle = VI_NULL],
             [v EXCEPT !.live = @ \ {s.m_instrumentHandle}], "ok")

\* VisaInterface::disconnect
disconnect(s, v) ==
    IF ~isConnectedS(s) THEN Cfg(s, v, "ok")
    ELSE LET v1 == IF s.m_instrumentHandle # VI_NULL
                   THEN [v EXCEPT !.live = @ \ {s.m_instrumentHandle}] ELSE v
             s1 == [s EXCEPT !.m_instrumentHandle = VI_NULL]
             v2 == IF s1.m_resourceManagerHandle # VI_NULL
                   THEN [v1 EXCEPT !.live = @ \ {s1.m_resourceManagerHandle}] ELSE v1
             s2 == [s1 EXCEPT !.m_resourceManagerHandle = VI_NULL]
         IN Cfg(s2, v2, "ok")

\* ------------------------------------------------------------------ threads
\* a caller that starts an operation before the previous one has returned
MainFreeAlways == TRUE

\* the caller is not inside an operation: its calls are synchronous, the next
\* one starts when the previous one has returned or thrown
MainFree == proc["main"].pc \in {"idle", "done"}

Event(ev, text, ms, st) == [ev |-> ev, text |-> text, ms |-> ms, st |-> st]

\* the operation of r ends by throwing exc
Throw(r, exc, text) ==
    [r EXCEPT !.pc = "done", !.prim = "none",
              !.outcome = [kind |-> exc, text |-> text]]

\* the operation of r returns payload
Return(r, payload) ==
    [r EXCEPT !.pc = "done", !.prim = "none",
              !.outcome = [kind |-> "ok", text |-> payload]]

\* a thread entering an operation named name
Enter(name) ==
    [IdleProc EXCEPT !.name = name,
                     !.connAtCall = (sess.m_instrumentHandle # VI_NULL),
                     !.autoAtCall = sess.m_autoErrorCheckEnabled]

\* entry of VisaInterface::write(command): next is its isConnected test
EnterWrite(r, command) ==
    [r EXCEPT !.pc = "chk", !.prim = "viWrite", !.command = command,
              !.reads = FALSE, !.delay_ms = 0]

\* EnterQuery dropping the delay between the write and the read
EnterQueryNoDelay(r, command, delay_ms) ==
    [r EXCEPT !.pc = "chk", !.prim = "viWrite", !.command = command,
              !.reads = TRUE, !.delay_ms = 0]

\* entry of VisaInterface::query(command, bufferSize, delay_ms): its isConnected
\* test and the one of the write it calls first
EnterQuery(r, command, delay_ms) ==
    [r EXCEPT !.pc = "chk", !.prim = "viWrite", !.command = command,
              !.reads = TRUE, !.delay_ms = delay_ms]

\* entry of VisaInterface::read(bufferSize)
EnterRead(r) == [r EXCEPT !.pc = "chk", !.prim = "viRead"]

\* the operation of r returns the response it read: as it is from
\* executeCommand, through parseResponse<T> from queryAndParse<T>
ReturnResponse(r) ==
    IF r.parseAs = "none" THEN Return(r, r.response)
    ELSE LET p == parseResponse(r.parseAs, r.response)
         IN IF p.kind = "ok" THEN [Return(r, r.response) EXCEPT !.value = p.val]
            ELSE Throw(r, p.kind, p.what)

\* checkInstrumentError accepting "+0" anywhere in the response
checkInstrumentErrorAnywhere(r, response) ==
    IF Find(response, <<"+", "0">>) = 0 - 1
    THEN Throw(r, "InstrumentException", trim(response))
    ELSE Return(r, r.response)

\* InstrumentDriver::checkInstrumentError, after its query returned response
checkInstrumentError(r, response) ==
    IF Find(response, <<"+", "0">>) # 0
    THEN Throw(r, "InstrumentException", trim(response))
    ELSE ReturnResponse(r)

\* the rest of executeCommand / executeCommandChain once the command's own
\* write or query has returned; every other operation returns what it read
AfterIo(r, auto) ==
    IF r.phase = "errq" THEN checkInstrumentError(r, r.errResponse)
    ELSE IF r.name \in {"executeCommand", "executeCommandChain", "queryAndParse"}
            /\ auto
    THEN [EnterQuery(r, SYST_ERR, 0) EXCEPT !.phase = "errq"]
    ELSE ReturnResponse(r)

\* thread p has written the command of a query and not yet read the response
Between(p) ==
    /\ proc[p].reads
    /\ \/ proc[p].pc = "delay"
       \/ proc[p].pc \in {"chk", "call"} /\ proc[p].prim = "viRead"

\* AtCall with a lock around the write, sleep and read of a query: no write
\* while another thread is between its write and its read
AtCallLocked(p, prim) ==
    /\ proc[p].pc = "call" /\ proc[p].prim = prim
    /\ prim = "viWrite" => \A q \in Procs \ {p} : ~Between(q)

\* thread p is about to make the VISA call prim; no lock is taken around the
\* calls of a query, whatever the other threads are doing
AtCall(p, prim) == proc[p].pc = "call" /\ proc[p].prim = prim

\* CheckConnected without the test: the call is made whatever the state
CheckConnectedMissing(p) ==
    /\ proc[p].pc = "chk"
    /\ proc' = [proc EXCEPT ![p] = [@ EXCEPT !.pc = "call"]]
    /\ UNCHANGED <<sess, visa, outq, other>>

\* the isConnected test at the head of write, read, query, clear, readStatusByte
CheckConnected(p) ==
    /\ proc[p].pc = "chk"
    /\ proc' = [proc EXCEPT ![p] =
                   IF ~isConnected THEN Throw(@, "ConnectionException", <<>>)
                   ELSE [@ EXCEPT !.pc = "call"]]
    /\ UNCHANGED <<sess, visa, outq, other>>

\* CallStatuses of a library that serves a call on a closed handle like any other
CallStatusesAnyHandle(sts) == sts

\* statuses a call on the session's instrument handle can return, sts being
\* the statuses of a call on a live session
CallStatuses(sts) ==
    IF sess.m_instrumentHandle \in visa.live THEN sts
    ELSE {"VI_ERROR_INV_OBJECT"}

\* ViWrite going on to the rest of the operation when the write has failed
ViWriteCheckAlways(p, sts) ==
    /\ AtCall(p, "viWrite")
    /\ \E st \in CallStatuses(sts) :
         LET r  == proc[p]
             r1 == [r EXCEPT !.trace = Append(@, Event("viWrite", r.command, 0, st))]
         IN /\ outq' = IF checkStatus(st) # "ok" THEN outq ELSE Receive(outq, r.command)
            /\ proc' = [proc EXCEPT ![p] =
                  IF r.reads
                  THEN IF r.delay_ms > 0 THEN [r1 EXCEPT !.pc = "delay"]
                       ELSE EnterRead(r1)
                  ELSE AfterIo(r1, sess.m_autoErrorCheckEnabled)]
    /\ UNCHANGED <<sess, visa, other>>

\* VisaInterface::write from the viWrite call on
ViWrite(p, sts) ==
    /\ AtCall(p, "viWrite")
    /\ \E st \in CallStatuses(sts) :
         LET r  == proc[p]
             r1 == [r EXCEPT !.trace = Append(@, Event("viWrite", r.command, 0, st))]
         IN IF checkStatus(st) # "ok"
            THEN /\ proc' = [proc EXCEPT ![p] = Throw(r1, checkStatus(st), <<>>)]
                 /\ outq' = outq
            ELSE /\ outq' = Receive(outq, r.command)
                 /\ proc' = [proc EXCEPT ![p] =
                       IF r.reads
                       THEN IF r.delay_ms > 0 THEN [r1 EXCEPT !.pc = "delay"]
                            ELSE EnterRead(r1)
                       ELSE AfterIo(r1, sess.m_autoErrorCheckEnabled)]
    /\ UNCHANGED <<sess, visa, other>>

\* std::this_thread::sleep_for in VisaInterface::query
Sleep(p) ==
    /\ proc[p].pc = "delay"
    /\ proc' = [proc EXCEPT ![p] =
                   EnterRead([@ EXCEPT !.trace =
                       Append(@, Event("sleep", <<>>, proc[p].delay_ms, "VI_SUCCESS"))])]
    /\ UNCHANGED <<sess, visa, outq, other>>

\* ViRead on a transport without timeout: the call returns only with data
ViReadBlocking(p, sts) ==
    /\ AtCall(p, "viRead")
    /\ outq # <<>>
    /\ outq' = Tail(outq)
    /\ \E data \in Replies(Head(outq)) :
         LET r1 == [proc[p] EXCEPT
                       !.trace = Append(@, Event("viRead", <<>>, 0, "VI_SUCCESS"))]
         IN proc' = [proc EXCEPT ![p] =
               IF proc[p].phase = "errq"
               THEN AfterIo([r1 EXCEPT !.errResponse = data],
                            sess.m_autoErrorCheckEnabled)
               ELSE AfterIo([r1 EXCEPT !.response = data, !.respFor = Head(outq)],
                            sess.m_autoErrorCheckEnabled)]
    /\ UNCHANGED <<sess, visa, other>>

\* VisaInterface::read from the viRead call on.  The call can only succeed
\* when the instrument has a response queued; it then returns that response.
ViRead(p, sts) ==
    /\ AtCall(p, "viRead")
    /\ \E st \in CallStatuses(sts) :
         LET r  == proc[p]
             r1 == [r EXCEPT !.trace = Append(@, Event("viRead", <<>>, 0, st))]
         IN IF checkStatus(st) # "ok"
            THEN /\ proc' = [proc EXCEPT ![p] = Throw(r1, checkStatus(st), <<>>)]
                 /\ outq' = outq
            ELSE /\ outq # <<>>
                 /\ outq' = Tail(outq)
                 /\ \E data \in Replies(Head(outq)) :
                      proc' = [proc EXCEPT ![p] =
                         IF r.phase = "errq"
                         THEN AfterIo([r1 EXCEPT !.errResponse = data],
                                      sess.m_autoErrorCheckEnabled)
                         ELSE AfterIo([r1 EXCEPT !.response = data,
                                                 !.respFor = Head(outq)],
                                      sess.m_autoErrorCheckEnabled)]
    /\ UNCHANGED <<sess, visa, other>>

\* VisaInterface::clear from the viClear call on; a device clear empties the
\* instrument's output queue
ViClear(p, sts) ==
    /\ AtCall(p, "viClear")
    /\ \E st \in CallStatuses(sts) :
         LET r1 == [proc[p] EXCEPT !.trace = Append(@, Event("viClear", <<>>, 0, st))]
         IN IF checkStatus(st) # "ok"
            THEN /\ proc' = [proc EXCEPT ![p] = Throw(r1, checkStatus(st), <<>>)]
                 /\ outq' = outq
            ELSE /\ proc' = [proc EXCEPT ![p] = Return(r1, <<>>)]
                 /\ outq' = <<>>
    /\ UNCHANGED <<sess, visa, other>>

\* VisaInterface::readStatusByte from the viReadSTB call on
ViReadSTB(p, sts) ==
    /\ AtCall(p, "viReadSTB")
    /\ \E st \in CallStatuses(sts) :
         LET r1 == [proc[p] EXCEPT !.trace = Append(@, Event("viReadSTB", <<>>, 0, st))]
         IN proc' = [proc EXCEPT ![p] =
                IF checkStatus(st) # "ok" THEN Throw(r1, checkStatus(st), <<>>)
                ELSE Return(r1, <<>>)]
    /\ UNCHANGED <<sess, visa, outq, other>>

\* ------------------------------------------------------------------ caller
ResourceNames == {"", "GPIB0::5::INSTR"}

QueryDelays == {0, 5}

SetMain(r) == proc' = [proc EXCEPT !["main"] = r]

\* the std::async slot a new task takes
FreeTask == CHOOSE t \in Tasks : proc[t].pc = "idle"

\* VisaInterface::queryAsync called by the operation r of the caller: throws
\* when not connected, else starts a task that runs query and returns its future
queryAsync(r, command, delay_ms) ==
    IF ~isConnected
    THEN SetMain(Throw(r, "ConnectionException", <<>>))
    ELSE /\ \E t \in Tasks : proc[t].pc = "idle"
         /\ proc' = [proc EXCEPT
                ![FreeTask] = EnterQuery([Enter("asyncTask") EXCEPT
                                              !.spec = r.spec, !.args = r.args],
                                         command, delay_ms),
                !["main"] = [r EXCEPT !.pc = "done", !.future = FreeTask,
                                      !.command = command,
                                      !.outcome = [kind |-> "future", text |-> <<>>]]]

\* VisaInterface::write called by the user
CallWrite(commands) ==
    /\ MainFree
    /\ \E c \in commands : SetMain(EnterWrite(Enter("write"), c))
    /\ UNCHANGED <<sess, visa, outq, other>>

\* VisaInterface::read called by the user
CallRead ==
    /\ MainFree
    /\ SetMain(EnterRead(Enter("read")))
    /\ UNCHANGED <<sess, visa, outq, other>>

\* VisaInterface::query called by the user
CallQuery(commands, delays) ==
    /\ MainFree
    /\ \E c \in commands, d \in delays : SetMain(EnterQuery(Enter("query"), c, d))
    /\ UNCHANGED <<sess, visa, outq, other>>

\* VisaInterface::queryAsync called by the user
CallQueryAsync(commands, delays) ==
    /\ MainFree
    /\ \E c \in commands, d \in delays : queryAsync(Enter("queryAsync"), c, d)
    /\ UNCHANGED <<sess, visa, outq, other>>

\* VisaInterface::clear called by the user
CallClear ==
    /\ MainFree
    /\ SetMain([Enter("clear") EXCEPT !.pc = "chk", !.prim = "viClear"])
    /\ UNCHANGED <<sess, visa, outq, other>>

\* VisaInterface::readStatusByte called by the user
CallReadStatusByte ==
    /\ MainFree
    /\ SetMain([Enter("readStatusByte") EXCEPT !.pc = "chk", !.prim = "viReadSTB"])
    /\ UNCHANGED <<sess, visa, outq, other>>

\* Dispatch sending the template instead of the formatted command
DispatchTemplate(r, spec, command) ==
    IF spec.type = "WRITE" THEN EnterWrite(r, spec.command)
    ELSE EnterQuery(r, spec.command, spec.delay_ms)

\* the dispatch of executeCommand on the formatted command
Dispatch(r, spec, command) ==
    IF spec.type = "WRITE" THEN EnterWrite(r, command)
    ELSE EnterQuery(r, command, spec.delay_ms)

\* InstrumentDriver::executeCommand up to the write or query it dispatches to
ExecuteCommand(calls) ==
    /\ MainFree
    /\ \E call \in calls :
         LET spec == call[1]
             args == call[2]
         IN
         \E f \in formatCommand(spec.command, args) :
            LET r == [Enter("executeCommand") EXCEPT !.spec = spec, !.args = args]
            IN SetMain(IF f.kind # "ok" THEN Throw(r, f.kind, <<>>)
                       ELSE Dispatch(r, spec, f.text))
    /\ UNCHANGED <<sess, visa, outq, other>>

\* InstrumentDriver::queryAndParse<T>: executeCommand, then parseResponse<T>
\* on what it returned
QueryAndParse(calls, types) ==
    /\ MainFree
    /\ \E call \in calls, T \in types :
         LET spec == call[1]
             args == call[2]
         IN
         \E f \in formatCommand(spec.command, args) :
            LET r == [Enter("queryAndParse") EXCEPT !.spec = spec, !.args = args,
                                                    !.parseAs = T]
            IN SetMain(IF f.kind # "ok" THEN Throw(r, f.kind, <<>>)
                       ELSE Dispatch(r, spec, f.text))
    /\ UNCHANGED <<sess, visa, outq, other>>

\* executeCommandAsync without the test of the command type
ExecuteCommandAsyncNoCheck(calls) ==
    /\ MainFree
    /\ \E call \in calls :
         LET spec == call[1]
             args == call[2]
             r == [Enter("executeCommandAsync") EXCEPT !.spec = spec, !.args = args]
         IN \E f \in formatCommand(spec.command, args) :
               IF f.kind # "ok" THEN SetMain(Throw(r, f.kind, <<>>))
               ELSE queryAsync(r, f.text, spec.delay_ms)
    /\ UNCHANGED <<sess, visa, outq, other>>

\* InstrumentDriver::executeCommandAsync
ExecuteCommandAsync(calls) ==
    /\ MainFree
    /\ \E call \in calls :
         LET spec == call[1]
             args == call[2]
             r == [Enter("executeCommandAsync") EXCEPT !.spec = spec, !.args = args]
         IN IF spec.type # "QUERY" THEN SetMain(Throw(r, "logic_error", <<>>))
            ELSE \E f \in formatCommand(spec.command, args) :
                    IF f.kind # "ok" THEN SetMain(Throw(r, f.kind, <<>>))
                    ELSE queryAsync(r, f.text, spec.delay_ms)
    /\ UNCHANGED <<sess, visa, outq, other>>

HasFormatSpecifier(command) == Find(command, <<"%">>) # 0 - 1

\* ChainLoop running its safety checks on the first command only
RECURSIVE ChainLoopFirstOnly(_, _, _, _)
ChainLoopFirstOnly(commands, delimiter, i, acc) ==
    IF i > Len(commands) THEN [kind |-> "ok", text |-> acc]
    ELSE IF i = 1 /\ commands[i].type # "WRITE"
    THEN [kind |-> "logic_error", text |-> <<>>]
    ELSE IF i = 1 /\ HasFormatSpecifier(commands[i].command)
    THEN [kind |-> "logic_error", text |-> <<>>]
    ELSE ChainLoopFirstOnly(commands, delimiter, i + 1,
                            acc \o commands[i].command
                                \o (IF i < Len(commands) THEN delimiter ELSE <<>>))

\* the loop of executeCommandChain from index i on (1-based), chained_command
\* so far being acc: the exception it throws, or the chained command
RECURSIVE ChainLoop(_, _, _, _)
ChainLoop(commands, delimiter, i, acc) ==
    IF i > Len(commands) THEN [kind |-> "ok", text |-> acc]
    ELSE IF commands[i].type # "WRITE" THEN [kind |-> "logic_error", text |-> <<>>]
    ELSE IF HasFormatSpecifier(commands[i].command)
    THEN [kind |-> "logic_error", text |-> <<>>]
    ELSE ChainLoop(commands, delimiter, i + 1,
                   acc \o commands[i].command
                       \o (IF i < Len(commands) THEN delimiter ELSE <<>>))

\* executeCommandChain writing the chained command with a delimiter after the
\* last command as well
ExecuteCommandChainTrailing(chains, delimiters) ==
    /\ MainFree
    /\ \E commands \in chains, delimiter \in delimiters :
         LET r == [Enter("executeCommandChain") EXCEPT !.chain = commands,
                                                       !.delimiter = delimiter]
             c == ChainLoop(commands, delimiter, 1, <<>>)
         IN SetMain(IF commands = <<>> THEN Return(r, <<>>)
                    ELSE IF c.kind # "ok" THEN Throw(r, c.kind, <<>>)
                    ELSE EnterWrite(r, c.text \o delimiter))
    /\ UNCHANGED <<sess, visa, outq, other>>

\* InstrumentDriver::executeCommandChain up to its write
ExecuteCommandChain(chains, delimiters) ==
    /\ MainFree
    /\ \E commands \in chains, delimiter \in delimiters :
         LET r == [Enter("executeCommandChain") EXCEPT !.chain = commands,
                                                       !.delimiter = delimiter]
             c == ChainLoop(commands, delimiter, 1, <<>>)
         IN SetMain(IF commands = <<>> THEN Return(r, <<>>)
                    ELSE IF c.kind # "ok" THEN Throw(r, c.kind, <<>>)
                    ELSE EnterWrite(r, c.text))
    /\ UNCHANGED <<sess, visa, outq, other>>

\* std::future::get on the future of task t, once the task has finished
FutureGet ==
    /\ MainFree
    /\ \E t \in Tasks :
         /\ proc[t].pc = "done"
         /\ proc' = [proc EXCEPT
                ![t] = IdleProc,
                !["main"] = [proc[t] EXCEPT !.name = "get", !.future = t]]
    /\ UNCHANGED <<sess, visa, outq, other>>

\* setResource dropping the connection instead of refusing
SetResourceDropping ==
    /\ MainFree
    /\ \E resourceName \in ResourceNames :
         /\ SetMain(Return(Enter("setResource"), <<>>))
         /\ sess' = [sess EXCEPT !.m_resourceName = resourceName,
                                 !.m_instrumentHandle = VI_NULL]
    /\ UNCHANGED <<visa, outq, other>>

\* VisaInterface::setResource called by the user
SetResource ==
    /\ MainFree
    /\ \E resourceName \in ResourceNames :
         IF isConnected
         THEN /\ SetMain(Throw(Enter("setResource"), "ConnectionException", <<>>))
              /\ sess' = sess
         ELSE /\ SetMain(Return(Enter("setResource"), <<>>))
              /\ sess' = [sess EXCEPT !.m_resourceName = resourceName]
    /\ UNCHANGED <<visa, outq, other>>

\* the outcome of a configuration or connection call
Finish(r, exc) == IF exc = "ok" THEN Return(r, <<>>) ELSE Throw(r, exc, <<>>)

\* statuses of the five viSetAttribute calls of applyConfiguration: all of them
\* succeed, or the k-th is the first to fail (none is made after a failure)
AttrStatusSeqs ==
    {[i \in 1..5 |-> IF i = k THEN "VI_ERROR_NSUP_ATTR" ELSE "VI_SUCCESS"] : k \in 0..5}

\* the viOpenDefaultRM and viOpen calls connect makes
OpenCalls(s, stRM, stOpen) ==
    IF isConnectedS(s) \/ s.m_resourceName = "" THEN <<>>
    ELSE IF Failing(stRM) THEN <<Event("viOpenDefaultRM", <<>>, 0, stRM)>>
    ELSE <<Event("viOpenDefaultRM", <<>>, 0, stRM), Event("viOpen", <<>>, 0, stOpen)>>

\* VisaInterface::connect called by the user
Connect ==
    /\ MainFree
    /\ \E stRM \in OpenStatuses, stOpen \in OpenStatuses, sts \in AttrStatusSeqs :
         LET c == connect(sess, visa, stRM, stOpen, sts)
         IN /\ sess' = c.s
            /\ visa' = c.v
            /\ SetMain(Finish([Enter("connect") EXCEPT
                                  !.trace = OpenCalls(sess, stRM, stOpen)], c.exc))
    /\ UNCHANGED <<outq, other>>

\* VisaInterface::disconnect called by the user
Disconnect ==
    /\ MainFree
    /\ LET c == disconnect(sess, visa)
       IN /\ sess' = c.s
          /\ visa' = c.v
          /\ SetMain(Finish(Enter("disconnect"), c.exc))
    /\ UNCHANGED <<outq, other>>

\* ------------------------------------------------------------------ moves
\* the handles the object s holds
Handles(s) == {s.m_resourceManagerHandle, s.m_instrumentHandle} \ {VI_NULL}

\* what std::move can leave in the m_resourceName of the object moved from: a
\* valid string the standard does not specify, the empty one or the old one
MovedNames(o) == {"", o.m_resourceName}

\* the object o after a move out of it
MovedFrom(o, name) ==
    [o EXCEPT !.m_resourceName = name,
              !.m_resourceManagerHandle = VI_NULL,
              !.m_instrumentHandle = VI_NULL]

\* the move constructor keeping the handles in the object moved from as well
moveConstructCopy(o, name, aec) ==
    [d |-> [o EXCEPT !.m_autoErrorCheckEnabled = aec],
     o |-> [o EXCEPT !.m_resourceName = name]]

\* VisaInterface::VisaInterface(VisaInterface&& other): the new object and
\* the object moved from; aec is the value of m_autoErrorCheckEnabled, which
\* the constructor does not initialize
moveConstruct(o, name, aec) ==
    [d |-> [o EXCEPT !.m_autoErrorCheckEnabled = aec], o |-> MovedFrom(o, name)]

\* the move assignment without the disconnect of the object assigned to
moveAssignNoDisconnect(d, o, v, name) ==
    [d |-> [o EXCEPT !.m_autoErrorCheckEnabled = d.m_autoErrorCheckEnabled],
     o |-> MovedFrom(o, name), v |-> v]

\* VisaInterface::operator=(VisaInterface&& other) on the object d, this and
\* other being two objects: d, the object moved from, and the VISA state
moveAssign(d, o, v, name) ==
    LET c == disconnect(d, v)
    IN [d |-> [o EXCEPT !.m_autoErrorCheckEnabled = c.s.m_autoErrorCheckEnabled],
        o |-> MovedFrom(o, name), v |-> c.v]

\* VisaInterface other; called by the user
DefaultConstruct ==
    /\ MainFree
    /\ ~other.alive
    /\ other' = [alive |-> TRUE, obj |-> DefaultSession]
    /\ SetMain(Return(Enter("VisaInterface"), <<>>))
    /\ UNCHANGED <<sess, visa, outq>>

\* VisaInterface other(std::move(session)); called by the user
MoveConstruct ==
    /\ MainFree
    /\ ~other.alive
    /\ \E name \in MovedNames(sess), aec \in BOOLEAN :
         LET m == moveConstruct(sess, name, aec)
         IN /\ other' = [alive |-> TRUE, obj |-> m.d]
            /\ sess' = m.o
    /\ SetMain(Return(Enter("moveConstruct"), <<>>))
    /\ UNCHANGED <<visa, outq>>

\* other = std::move(session); called by the user
MoveAssign ==
    /\ MainFree
    /\ other.alive
    /\ \E name \in MovedNames(sess) :
         LET m == moveAssign(other.obj, sess, visa, name)
         IN /\ other' = [alive |-> TRUE, obj |-> m.d]
            /\ sess' = m.o
            /\ visa' = m.v
    /\ SetMain(Return(Enter("moveAssign"), <<>>))
    /\ UNCHANGED outq

\* session = std::move(other); called by the user
MoveAssignBack ==
    /\ MainFree
    /\ other.alive
    /\ \E name \in MovedNames(other.obj) :
         LET m == moveAssign(sess, other.obj, visa, name)
         IN /\ sess' = m.d
            /\ other' = [alive |-> TRUE, obj |-> m.o]
            /\ visa' = m.v
    /\ SetMain(Return(Enter("moveAssignBack"), <<>>))
    /\ UNCHANGED outq

\* VisaInterface::~VisaInterface of the second object
Destroy ==
    /\ MainFree
    /\ other.alive
    /\ other' = NoObject
    /\ visa' = disconnect(other.obj, visa).v
    /\ SetMain(Return(Enter("~VisaInterface"), <<>>))
    /\ UNCHANGED <<sess, outq>>

\* statuses of viFindRsrc
FindStatuses == {"VI_SUCCESS", "VI_ERROR_RSRC_NFOUND", "VI_ERROR_INV_EXPR"}

\* the descriptions viFindRsrc and viFindNext hand out, in their order
Descriptions == <<"GPIB0::5::INSTR", "GPIB0::7::INSTR">>

\* VisaInterface::findResources on the VISA state v; stRM and stFind are the
\* statuses of viOpenDefaultRM and viFindRsrc, returnCount the number of
\* matches viFindRsrc reports and got the number of descriptions read before a
\* viFindNext failed (returnCount when none did)
findResources(v, stRM, stFind, returnCount, got) ==
    IF Failing(stRM)
    THEN [v |-> v, exc |-> "VisaException", resources |-> <<>>]
    ELSE LET rmSession == NewHandle(v.live)
             v1 == [v EXCEPT !.live = @ \cup {rmSession}]
         IN IF Failing(stFind)
            THEN [v |-> [v1 EXCEPT !.live = @ \ {rmSession}],
                  exc |-> IF stFind = "VI_ERROR_RSRC_NFOUND" THEN "ok"
                          ELSE "VisaException",
                  resources |-> <<>>]
            ELSE LET findList == NewHandle(v1.live)
                     v2 == [v1 EXCEPT !.live = @ \cup {findList}]
                 IN [v |-> [v2 EXCEPT !.live = (@ \ {findList}) \ {rmSession}],
                     exc |-> "ok",
                     resources |-> SubSeq(Descriptions, 1, got)]

\* the viOpenDefaultRM and viFindRsrc calls findResources makes
FindCalls(stRM, stFind) ==
    IF Failing(stRM) THEN <<Event("viOpenDefaultRM", <<>>, 0, stRM)>>
    ELSE <<Event("viOpenDefaultRM", <<>>, 0, stRM), Event("viFindRsrc", <<>>, 0, stFind)>>

\* VisaInterface::findResources called by the user
FindResources ==
    /\ MainFree
    /\ \E stRM \in OpenStatuses, stFind \in FindStatuses,
          returnCount \in 1..Len(Descriptions) :
         \E got \in 1..returnCount :
            LET f == findResources(visa, stRM, stFind, returnCount, got)
                r == [Enter("findResources") EXCEPT !.trace = FindCalls(stRM, stFind)]
            IN /\ visa' = f.v
               /\ SetMain(IF f.exc = "ok" THEN Return(r, f.resources)
                          ELSE Throw(r, f.exc, <<>>))
    /\ UNCHANGED <<sess, outq, other>>

Timeouts == {100, 500}

TermChars == {"\n", "\r"}

\* VisaInterface::setTimeout called by the user
SetTimeout ==
    /\ MainFree
    /\ \E timeout_ms \in Timeouts, st \in AttrStatuses :
         LET c == setTimeout(Cfg(sess, visa, "ok"), timeout_ms, st)
         IN /\ sess' = c.s
            /\ visa' = c.v
            /\ SetMain(Finish(Enter("setTimeout"), c.exc))
    /\ UNCHANGED <<outq, other>>

\* VisaInterface::setReadTermination called by the user
SetReadTermination ==
    /\ MainFree
    /\ \E term_char \in TermChars, enable \in BOOLEAN,
          st1 \in AttrStatuses, st2 \in AttrStatuses :
         LET c == setReadTermination(Cfg(sess, visa, "ok"), term_char, enable, st1, st2)
         IN /\ sess' = c.s
            /\ visa' = c.v
            /\ SetMain(Finish(Enter("setReadTermination"), c.exc))
    /\ UNCHANGED <<outq, other>>

\* VisaInterface::setWriteTermination called by the user
SetWriteTermination ==
    /\ MainFree
    /\ \E term_char \in TermChars, st1 \in AttrStatuses, st2 \in AttrStatuses :
         LET c == setWriteTermination(Cfg(sess, visa, "ok"), term_char, st1, st2)
         IN /\ sess' = c.s
            /\ visa' = c.v
            /\ SetMain(Finish(Enter("setWriteTermination"), c.exc))
    /\ UNCHANGED <<outq, other>>

\* VisaInterface::enableAutoErrorCheck called by the user
EnableAutoErrorCheck ==
    /\ MainFree
    /\ \E enable \in BOOLEAN :
         /\ sess' = [sess EXCEPT !.m_autoErrorCheckEnabled = enable]
         /\ SetMain(Return(Enter("enableAutoErrorCheck"), <<>>))
    /\ UNCHANGED <<visa, outq, other>>

\* one step of a thread inside an operation
Step(p, sts) ==
    \/ CheckConnected(p)
    \/ ViWrite(p, sts)
    \/ Sleep(p)
    \/ ViRead(p, sts)
    \/ ViClear(p, sts)
    \/ ViReadSTB(p, sts)

\* every pair of a catalogue command and an argument list
AllCalls == Catalogue \X ArgLists

\* every command list of at most MaxChain commands
AllChains == SeqsUpTo(ChainSpecs, MaxChain)

\* the calls and command lists the caller makes while tasks are in flight
FewCalls == {<<setFlowOn, <<>>>>, <<setLabel, <<200>>>>, <<getTemperature, <<>>>>,
             <<getChannel, <<65>>>>, <<getChannel, <<200>>>>}

FewStatuses == {"VI_SUCCESS", "VI_ERROR_TMO", "VI_ERROR_CONN_LOST", "VI_ERROR_IO"}

FewChains == {<<>>, <<setFlowOn>>, <<setFlowOn, setHeadDown>>}

\* the session and the engine used from one thread: no asynchronous query
SeqNext ==
    \/ CallWrite(RawCommands)
    \/ CallRead
    \/ CallQuery(RawCommands, QueryDelays)
    \/ CallClear
    \/ CallReadStatusByte
    \/ ExecuteCommand(AllCalls)
    \/ ExecuteCommandChain(AllChains, Delimiters)
    \/ SetResource
    \/ Connect
    \/ Disconnect
    \/ EnableAutoErrorCheck
    \/ Step("main", IoStatuses)

SpecSeq == Init /\ [][SeqNext]_vars

\* the whole program: the caller's thread and the asynchronous queries it starts
Next ==
    \/ CallWrite({getTemperature.command})
    \/ CallRead
    \/ CallQuery({getTemperature.command}, {0})
    \/ CallQueryAsync({getTemperature.command}, {0})
    \/ CallClear
    \/ CallReadStatusByte
    \/ ExecuteCommand(FewCalls)
    \/ ExecuteCommandAsync(FewCalls)
    \/ ExecuteCommandChain(FewChains, {<<";">>})
    \/ FutureGet
    \/ SetResource
    \/ Connect
    \/ Disconnect
    \/ EnableAutoErrorCheck
    \/ \E p \in Procs : Step(p, FewStatuses)

Spec == Init /\ [][Next]_vars

\* the whole program with std::async tasks that are scheduled: the thread of
\* a task that can take a step eventually takes one
SpecFair == Init /\ [][Next]_vars /\ \A t \in Tasks : WF_vars(Step(t, FewStatuses))

\* the calls the typed decoder is exercised with
ParseCalls == {<<getIdentification, <<>>>>, <<setFlowOn, <<>>>>,
               <<getChannel, <<65>>>>, <<getChannel, <<200>>>>}

\* the engine used from one thread through queryAndParse, with the session's
\* clear and readStatusByte
ParseNext ==
    \/ QueryAndParse(ParseCalls, ParseTypes)
    \/ CallClear
    \/ CallReadStatusByte
    \/ SetResource
    \/ Connect
    \/ Disconnect
    \/ EnableAutoErrorCheck
    \/ Step("main", FewStatuses)

SpecParse == Init /\ [][ParseNext]_vars

\* the session's connection and configuration operations, and resource
\* discovery
CfgNext ==
    \/ SetResource
    \/ SetTimeout
    \/ SetReadTermination
    \/ SetWriteTermination
    \/ Connect
    \/ Disconnect
    \/ FindResources

SpecCfg == Init /\ [][CfgNext]_vars

\* two session objects: connection operations on the first, moves between
\* the two, construction and destruction of the second
MoveNext ==
    \/ SetResource
    \/ SetTimeout
    \/ Connect
    \/ Disconnect
    \/ DefaultConstruct
    \/ MoveConstruct
    \/ MoveAssign
    \/ MoveAssignBack
    \/ Destroy

SpecMove == Init /\ [][MoveNext]_vars

\* ------------------------------------------------------------------ properties
\* the caller's thread
Caller == proc["main"]

\* the caller's operation has returned or thrown
Finished(name) == Caller.pc = "done" /\ Caller.name = name

\* the texts formatting (template, args) can give
Formatted(spec, args) ==
    {f.text : f \in {g \in formatCommand(spec.command, args) : g.kind = "ok"}}

HasPlaceholder(spec) == \E i \in 1..Len(spec.command) : spec.command[i] = "%"

ValidChain(commands) ==
    \A i \in 1..Len(commands) :
        commands[i].type = "WRITE" /\ ~HasPlaceholder(commands[i])

\* C1 as stated: every operation that uses the session, invoked while the
\* session is Disconnected, fails with ConnectionError and makes no transport
\* call -- the empty command list and every Query spec given to executeAsync
\* included.
C1_Original ==
    (/\ Caller.pc = "done"
     /\ ~Caller.connAtCall
     /\ \/ Caller.name \in {"write", "read", "query", "queryAsync", "clear",
                            "readStatusByte"}
        \/ Caller.name = "executeCommand" /\ Caller.outcome.kind # "runtime_error"
        \/ Caller.name = "executeCommandChain" /\ ValidChain(Caller.chain)
        \/ Caller.name = "executeCommandAsync" /\ Caller.spec.type = "QUERY")
    => /\ Caller.outcome.kind = "ConnectionException"
       /\ Caller.trace = <<>>
       /\ Caller.future = ""

\* C1 amended: an operation invoked while the session is Disconnected fails
\* with ConnectionError and makes no transport call, for write, read, query,
\* queryAsync, clear, readStatusByte, execute and executeAsync of a Query spec
\* when formatting succeeds, and executeChain of a non-empty list of
\* placeholder-free Write specs.
C1_DisconnectedFails ==
    (/\ Caller.pc = "done"
     /\ ~Caller.connAtCall
     /\ \/ Caller.name \in {"write", "read", "query", "queryAsync", "clear",
                            "readStatusByte"}
        \/ Caller.name = "executeCommand" /\ Caller.outcome.kind # "runtime_error"
        \/ /\ Caller.name = "executeCommandChain"
           /\ ValidChain(Caller.chain) /\ Caller.chain # <<>>
        \/ /\ Caller.name = "executeCommandAsync"
           /\ Caller.spec.type = "QUERY" /\ Caller.outcome.kind # "runtime_error")
    => /\ Caller.outcome.kind = "ConnectionException"
       /\ Caller.trace = <<>>
       /\ Caller.future = ""
       /\ \A t \in Tasks : proc[t].pc = "idle" \/ proc[t].connAtCall

C1_Witness ==
    /\ Finished("executeCommandChain")
    /\ ~Caller.connAtCall
    /\ Len(Caller.chain) = 2
    /\ Caller.outcome.kind = "ConnectionException"

\* C2: execute of a Write spec on a Connected session with auto-error-check
\* disabled, once the command string is formatted, issues exactly one write,
\* carrying the formatted command, issues no read, and returns an empty payload.
C2_WriteSpecOneWrite ==
    (/\ Finished("executeCommand")
     /\ Caller.spec.type = "WRITE"
     /\ Caller.connAtCall /\ ~Caller.autoAtCall
     /\ Caller.outcome.kind # "runtime_error")
    => /\ Len(Caller.trace) = 1
       /\ Caller.trace[1].ev = "viWrite"
       /\ Caller.trace[1].text \in Formatted(Caller.spec, Caller.args)
       /\ Caller.outcome.kind = checkStatus(Caller.trace[1].st)
       /\ Caller.outcome.text = <<>>

C2_Witness ==
    /\ Finished("executeCommand")
    /\ Caller.spec = setSoakTime /\ Caller.args = <<65>>
    /\ Caller.connAtCall /\ ~Caller.autoAtCall
    /\ Caller.outcome.kind = "ok"
    /\ Caller.trace[1].text = <<"S", "6", "5">>

\* the transport calls query(command, delay) has made so far are a prefix of
\* write, sleep (only when delay > 0), read; nothing follows a failed write
QueryPrefix(tr, texts, d) ==
    /\ Len(tr) <= (IF d > 0 THEN 3 ELSE 2)
    /\ Len(tr) >= 1 => tr[1].ev = "viWrite" /\ tr[1].text \in texts
    /\ Len(tr) >= 2 => ~Failing(tr[1].st)
    /\ (Len(tr) >= 2 /\ d > 0) => tr[2].ev = "sleep" /\ tr[2].ms = d
    /\ (Len(tr) >= 2 /\ d = 0) => tr[2].ev = "viRead"
    /\ Len(tr) >= 3 => tr[3].ev = "viRead"

\* C3: execute of a Query spec with delay d on a Connected session with
\* auto-error-check disabled, once the command string is formatted, issues one
\* write, then a sleep of d if and only if d > 0, then one read, in that order;
\* no read or sleep precedes the completion of the write or follows a failed
\* write; the payload returned is the text read.
C3_QueryWriteDelayRead ==
    (/\ Caller.name = "executeCommand"
     /\ Caller.spec.type = "QUERY"
     /\ Caller.connAtCall /\ ~Caller.autoAtCall
     /\ Caller.outcome.kind # "runtime_error")
    => LET tr   == Caller.trace
           d    == Caller.spec.delay_ms
           last == tr[Len(tr)]
       IN /\ QueryPrefix(tr, Formatted(Caller.spec, Caller.args), d)
          /\ Caller.pc = "done" =>
               /\ Len(tr) >= 1
               /\ Caller.outcome.kind = checkStatus(last.st)
               /\ Caller.outcome.kind = "ok" =>
                    /\ Len(tr) = (IF d > 0 THEN 3 ELSE 2)
                    /\ last.ev = "viRead"
                    /\ Caller.response \in Replies(Caller.respFor)
                    /\ Caller.outcome.text = Caller.response

C3_Witness ==
    /\ Finished("executeCommand")
    /\ Caller.spec = getChannel /\ Caller.args = <<65>>
    /\ Caller.connAtCall /\ ~Caller.autoAtCall
    /\ Caller.outcome = [kind |-> "ok", text |-> Reading]
    /\ Len(Caller.trace) = 3

\* number of transport calls the command's own write or query makes
OwnCalls(spec) ==
    IF spec.type = "WRITE" THEN 1 ELSE IF spec.delay_ms > 0 THEN 3 ELSE 2

\* the first n transport calls were made and succeeded
Succeeded(tr, n) == Len(tr) >= n /\ \A i \in 1..n : ~Failing(tr[i].st)

\* the no-error sentinel of the error queue: the response leads with +0
IsNoError(reply) == Len(reply) >= 2 /\ reply[1] = "+" /\ reply[2] = "0"

\* what executeCommand does, with auto-error-check enabled, after the own
\* write/read of the operation r succeeded: one query of SYST:ERR? and nothing
\* after it, InstrumentError carrying the reply exactly when the reply is not
\* the no-error sentinel, the command's payload otherwise
AutoChecked(r) ==
    LET tr == r.trace
        n  == OwnCalls(r.spec)
    IN /\ Len(tr) \in {n + 1, n + 2}
       /\ tr[n + 1].ev = "viWrite" /\ tr[n + 1].text = SYST_ERR
       /\ Len(tr) = n + 2 <=> ~Failing(tr[n + 1].st)
       /\ Len(tr) = n + 2 => tr[n + 2].ev = "viRead"
       /\ Succeeded(tr, n + 2) =>
            /\ r.errResponse # <<>>
            /\ r.outcome.kind = "InstrumentException" <=> ~IsNoError(r.errResponse)
            /\ r.outcome.kind = "InstrumentException"
                 => r.outcome.text = trim(r.errResponse)
            /\ IsNoError(r.errResponse)
                 => r.outcome = [kind |-> "ok", text |-> r.response]
       /\ ~Succeeded(tr, n + 2) => r.outcome.kind = checkStatus(tr[Len(tr)].st)

\* C4: with auto-error-check enabled, an execute whose own write/read
\* succeeded goes on with exactly one query of SYST:ERR? (one write, one read,
\* nothing after it); it throws InstrumentError, carrying the instrument's
\* reply, if and only if the reply read is not the no-error sentinel, and
\* returns the command's payload otherwise.
C4_AutoErrorCheck ==
    (/\ Finished("executeCommand")
     /\ Caller.connAtCall /\ Caller.autoAtCall
     /\ Succeeded(Caller.trace, OwnCalls(Caller.spec)))
    => AutoChecked(Caller)

C4_Witness ==
    /\ Finished("executeCommand")
    /\ Caller.spec = getTemperature
    /\ Caller.connAtCall /\ Caller.autoAtCall
    /\ Caller.response = Reading
    /\ Caller.errResponse = UndefinedHeader
    /\ Caller.outcome.kind = "InstrumentException"
    /\ Len(Caller.trace) = 4

\* C5: the future of executeAsync yields what a synchronous execute of the
\* same Query spec yields: with auto-error-check enabled, an asynchronous query
\* whose write and read succeeded is followed by the SYST:ERR? query and fails
\* with InstrumentError when the instrument reports an error.
C5_AsyncSameAsExecute ==
    (/\ Finished("get")
     /\ Caller.spec.type = "QUERY"
     /\ Caller.autoAtCall /\ sess.m_autoErrorCheckEnabled
     /\ Succeeded(Caller.trace, OwnCalls(Caller.spec)))
    => AutoChecked(Caller)

\* C6: the session takes no lock: while one thread is between the write and
\* the read of its query, no step of another thread's operation on the same
\* session has to wait, its write included.
C6_NoSerialization ==
    \A a \in Procs, b \in Procs :
        (a # b /\ Between(a) /\ proc[b].pc \in {"chk", "call", "delay"})
        => ENABLED Step(b, FewStatuses)

\* the asynchronous query has already read the response to the command the
\* caller's execute wrote, while that execute is still waiting to read
C6_Witness ==
    /\ Caller.name = "executeCommand" /\ Between("main")
    /\ proc["t1"].pc = "done" /\ proc["t1"].outcome.kind = "ok"
    /\ proc["t1"].command # Caller.command
    /\ proc["t1"].respFor = Caller.command

\* C7: executeChain of a list holding a Query spec or a template with a
\* placeholder, at any position, throws LogicError without any transport call.
C7_ChainRejected ==
    (Caller.name = "executeCommandChain" /\ ~ValidChain(Caller.chain))
    => /\ Caller.pc = "done"
       /\ Caller.outcome.kind = "logic_error"
       /\ Caller.trace = <<>>

C7_Witness ==
    /\ Finished("executeCommandChain")
    /\ Caller.chain = <<setFlowOn, setHeadDown, getTemperature>>
    /\ Caller.connAtCall
    /\ Caller.outcome.kind = "logic_error"

\* the templates joined by the delimiter, none leading, none trailing
RECURSIVE Join(_, _)
Join(commands, delimiter) ==
    IF Len(commands) = 1 THEN commands[1].command
    ELSE commands[1].command \o delimiter \o Join(Tail(commands), delimiter)

Writes(tr) == {i \in 1..Len(tr) : tr[i].ev = "viWrite"}

\* C8 as stated: executeChain of a non-empty list of placeholder-free Write
\* specs on a Connected session issues exactly one write, the templates joined
\* by the delimiter.
C8_Original ==
    (/\ Finished("executeCommandChain")
     /\ ValidChain(Caller.chain) /\ Caller.chain # <<>>
     /\ Caller.connAtCall)
    => /\ Cardinality(Writes(Caller.trace)) = 1
       /\ Caller.trace[1].text = Join(Caller.chain, Caller.delimiter)

\* C8 amended: executeChain of a non-empty list of placeholder-free Write specs
\* on a Connected session issues exactly one write for the whole list, the
\* templates joined by the delimiter in input order; it is the only transport
\* call when auto-error-check is disabled, and is followed by the one SYST:ERR?
\* query when auto-error-check is enabled and the write succeeded.
C8_ChainOneWrite ==
    (/\ Finished("executeCommandChain")
     /\ ValidChain(Caller.chain) /\ Caller.chain # <<>>
     /\ Caller.connAtCall)
    => LET tr == Caller.trace
       IN /\ Len(tr) >= 1
          /\ tr[1].ev = "viWrite"
          /\ tr[1].text = Join(Caller.chain, Caller.delimiter)
          /\ \A i \in Writes(tr) : i = 1 \/ (i = 2 /\ tr[i].text = SYST_ERR)
          /\ ~Caller.autoAtCall => Len(tr) = 1
          /\ Caller.autoAtCall => (Len(tr) >= 2 <=> ~Failing(tr[1].st))

C8_Witness ==
    /\ Finished("executeCommandChain")
    /\ Caller.chain = <<setFlowOn, setHeadDown, setFlowOn>>
    /\ Caller.delimiter = <<";">>
    /\ Caller.connAtCall /\ Caller.autoAtCall
    /\ Caller.trace[1].text = <<"F", "1", ";", "H", "1", ";", "F", "1">>
    /\ Caller.outcome.kind = "ok"

\* C9: executeAsync of a Write spec throws LogicError in the caller's thread,
\* in the call itself: no task is started and no transport call is made.
C9_AsyncRejectsWrite ==
    [][(/\ proc'["main"] # proc["main"]
        /\ proc'["main"].name = "executeCommandAsync"
        /\ proc'["main"].spec.type = "WRITE")
       => /\ proc'["main"].pc = "done"
          /\ proc'["main"].outcome.kind = "logic_error"
          /\ proc'["main"].future = ""
          /\ proc'["main"].trace = <<>>
          /\ \A t \in Tasks : proc'[t] = proc[t]
          /\ outq' = outq]_vars

C9_Witness ==
    /\ Finished("executeCommandAsync")
    /\ Caller.spec = setLabel /\ Caller.args = <<200>>
    /\ Caller.connAtCall
    /\ Caller.outcome.kind = "logic_error"

\* C10: a failed execute leaves the connection state as it was at the call,
\* and no step other than connect and disconnect changes the session's handles
\* or the set of open VISA handles.
C10_ConnectionStateFrame ==
    /\ []((Finished("executeCommand") /\ Caller.outcome.kind # "ok")
          => /\ isConnected <=> Caller.connAtCall
             /\ isConnected => sess.m_instrumentHandle \in visa.live)
    /\ [][(\/ sess'.m_instrumentHandle # sess.m_instrumentHandle
           \/ sess'.m_resourceManagerHandle # sess.m_resourceManagerHandle
           \/ visa'.live # visa.live)
          => /\ proc'["main"].name \in {"connect", "disconnect"}
             /\ proc'["main"].pc = "done"
             /\ \A t \in Tasks : proc'[t] = proc[t]]_vars

C10_Witness ==
    /\ Finished("executeCommand")
    /\ Caller.connAtCall /\ isConnected
    /\ Caller.outcome.kind = "ConnectionException"
    /\ Len(Caller.trace) = 1

\* the last transport call the caller's operation made
LastCall == Caller.trace[Len(Caller.trace)]

\* the kinds of the error taxonomy, and LogicError for a violated precondition
ErrorKinds == {"ConnectionException", "CommandException", "TimeoutException",
               "InstrumentException", "logic_error"}

\* C11: every engine operation (execute, executeChain, executeAsync and the
\* awaited handle, queryAndParse) returns a value or fails with one of the
\* kinds of the taxonomy; no generic transport error, raw formatting error or
\* numeric out-of-range error reaches the caller.
C11_FourKindsOnly ==
    (/\ Caller.pc = "done"
     /\ Caller.name \in {"executeCommand", "executeCommandChain",
                         "executeCommandAsync", "get", "queryAndParse"})
    => Caller.outcome.kind \in {"ok", "future"} \cup ErrorKinds

\* the statuses the taxonomy classes as connection failures: resource not
\* found, resource locked, connection lost
ConnectionStatuses == {"VI_ERROR_RSRC_NFOUND", "VI_ERROR_RSRC_LOCKED",
                       "VI_ERROR_CONN_LOST"}

\* C12: on a Connected session a write or read whose transport call fails
\* throws TimeoutError when the status is a timeout and CommandError for every
\* other failing status (the statuses that report a connection failure, which
\* the taxonomy makes ConnectionError, are left aside).
C12_TransportClassification ==
    (/\ Caller.pc = "done"
     /\ Caller.name \in {"write", "read"}
     /\ Caller.connAtCall
     /\ Caller.trace # <<>>
     /\ Failing(LastCall.st)
     /\ LastCall.st \notin ConnectionStatuses)
    => /\ LastCall.st = "VI_ERROR_TMO" => Caller.outcome.kind = "TimeoutException"
       /\ LastCall.st # "VI_ERROR_TMO" => Caller.outcome.kind = "CommandException"

\* s without its trailing line-ending characters
TrimEnd(s) ==
    LET keep == {i \in 1..Len(s) : s[i] \notin {"\n", "\r"}}
    IN IF keep = {} THEN <<>>
       ELSE SubSeq(s, 1, CHOOSE i \in keep : \A j \in keep : i >= j)

Contains(s, pat) ==
    \E i \in 1..(Len(s) - Len(pat) + 1) : \A k \in 1..Len(pat) : s[i + k - 1] = pat[k]

\* queryAndParse got the response from executeCommand and decoded it
ParseRan ==
    /\ Finished("queryAndParse")
    /\ Caller.trace # <<>>
    /\ ~Failing(LastCall.st)
    /\ Caller.outcome.kind # "InstrumentException"

\* C13: queryAndParse<string> returns the response without its trailing line
\* ending and otherwise unchanged.
C13_TrailingTerminatorRemoved ==
    (ParseRan /\ Caller.parseAs = "string")
    => /\ Caller.outcome.kind = "ok"
       /\ Caller.value.s = TrimEnd(Caller.response)

\* the text starts, after blanks and a sign, with the digits of a number
StartsNumber(s) ==
    \E i \in 1..Len(s) :
        /\ \A k \in 1..(i - 1) : s[k] \in Whitespace \/ (k = i - 1 /\ s[k] \in {"+", "-"})
        /\ \/ IsDigit(s[i])
           \/ s[i] = "." /\ i < Len(s) /\ IsDigit(s[i + 1])

\* C14: queryAndParse<double> and queryAndParse<int> return the number the
\* response holds or throw CommandError, and nothing else: " 12.345\n" gives
\* 12.345, a response that is not a number ("abc", "") or that is outside the
\* range of the type gives CommandError.
C14_NumericParse ==
    (ParseRan /\ Caller.parseAs \in {"double", "int"})
    => /\ Caller.outcome.kind \in {"ok", "CommandException"}
       /\ ~StartsNumber(Caller.response) => Caller.outcome.kind = "CommandException"
       /\ (/\ Caller.parseAs = "double"
           /\ Caller.response = <<" ", "1", "2", ".", "3", "4", "5", "\n">>)
          => Caller.value = Val("double", 12345, 0 - 3, <<>>, FALSE)

\* C15: queryAndParse<bool> never throws a parse error and returns true
\* exactly when the response, trailing line ending aside, contains "1" or "ON".
C15_BooleanDecoding ==
    (ParseRan /\ Caller.parseAs = "bool")
    => /\ Caller.outcome.kind = "ok"
       /\ Caller.value.t = "bool"
       /\ Caller.value.b <=> \/ Contains(TrimEnd(Caller.response), <<"1">>)
                             \/ Contains(TrimEnd(Caller.response), <<"O", "N">>)

C15_Witness ==
    /\ ParseRan /\ Caller.parseAs = "bool"
    /\ Caller.response = <<"O", "N", "\n">>
    /\ Caller.value.b

\* C16: disconnect never fails; it leaves the session Disconnected with no
\* VISA handle held or left open, is a no-op on a Disconnected session, and a
\* further disconnect changes nothing.
C16_DisconnectIdempotent ==
    /\ [](Finished("disconnect")
          => /\ Caller.outcome.kind = "ok"
             /\ ~isConnected
             /\ sess.m_instrumentHandle = VI_NULL
             /\ sess.m_resourceManagerHandle = VI_NULL
             /\ visa.live = {}
             /\ disconnect(sess, visa) = Cfg(sess, visa, "ok"))
    /\ [][(proc'["main"].name = "disconnect" /\ ~isConnected)
          => (sess' = sess /\ visa' = visa)]_vars

C16_Witness ==
    /\ Finished("disconnect")
    /\ Caller.connAtCall
    /\ ~isConnected

\* C17: connect throws ConnectionError when the resource name is empty or
\* when the resource manager or the instrument cannot be opened, and the
\* session then stays Disconnected; on a Connected session connect is a no-op
\* that opens nothing; naming a resource while Connected fails; the session
\* never holds more than the two handles of one connection.
C17_ConnectSemantics ==
    /\ [](/\ isConnected
             => /\ visa.live = {sess.m_resourceManagerHandle, sess.m_instrumentHandle}
                /\ Cardinality(visa.live) = 2
          /\ ~isConnected => visa.live = {}
          /\ Finished("connect")
             => /\ Caller.connAtCall
                   => Caller.outcome.kind = "ok" /\ Caller.trace = <<>>
                /\ (~Caller.connAtCall /\ sess.m_resourceName = "")
                   => /\ Caller.outcome.kind = "ConnectionException"
                      /\ Caller.trace = <<>>
                      /\ ~isConnected
                /\ (~Caller.connAtCall /\ Caller.trace # <<>> /\ Failing(LastCall.st))
                   => /\ Caller.outcome.kind = "ConnectionException"
                      /\ ~isConnected
          /\ (Finished("setResource") /\ Caller.connAtCall)
             => Caller.outcome.kind = "ConnectionException" /\ isConnected)
    /\ [][(proc'["main"].name = "connect" /\ isConnected)
          => (sess' = sess /\ visa' = visa)]_vars

C17_Witness ==
    /\ Finished("connect")
    /\ Caller.connAtCall /\ isConnected
    /\ Caller.outcome.kind = "ok"

\* C18: a timeout or a read terminator set on a Connected session is on the
\* transport when the setter returns, and one set on a Disconnected session is
\* on the transport after the next successful connect: the transport's
\* timeout, read-terminator character and read-terminator enable flag are then
\* the last values configured.
C18_ConfigurationBuffering ==
    /\ (Finished("setTimeout") /\ Caller.outcome.kind = "ok" /\ isConnected)
       => visa.attr.TMO_VALUE = sess.m_timeout_ms
    /\ (Finished("setReadTermination") /\ Caller.outcome.kind = "ok" /\ isConnected)
       => /\ visa.attr.TERMCHAR = sess.m_read_termination
          /\ visa.attr.TERMCHAR_EN = sess.m_read_termination_set
    /\ (Finished("connect") /\ Caller.outcome.kind = "ok" /\ ~Caller.connAtCall)
       => /\ sess.m_timeout_ms_set => visa.attr.TMO_VALUE = sess.m_timeout_ms
          /\ sess.m_read_termination_set
             => /\ visa.attr.TERMCHAR = sess.m_read_termination
                /\ visa.attr.TERMCHAR_EN

\* the conversions of a template, %% not being one
RECURSIVE Placeholders(_)
Placeholders(fmt) ==
    IF Len(fmt) < 2 THEN 0
    ELSE IF fmt[1] = "%" /\ fmt[2] = "%" THEN Placeholders(SubSeq(fmt, 3, Len(fmt)))
    ELSE IF fmt[1] = "%" THEN 1 + Placeholders(Tail(fmt))
    ELSE Placeholders(Tail(fmt))

\* C19: on a Connected session, an execute given fewer arguments than the
\* template has placeholders fails as a format error (CommandError, or the
\* formatter's own error) and makes no transport call.
C19_FormatFailureLocal ==
    (/\ Caller.name \in {"executeCommand", "queryAndParse"}
     /\ Caller.connAtCall
     /\ Len(Caller.args) < Placeholders(Caller.spec.command))
    => /\ Caller.trace = <<>>
       /\ Caller.pc = "done"
            => Caller.outcome.kind \in {"CommandException", "runtime_error"}

C28_CheckOnlyAfterSuccess ==
    (Caller.name \in {"executeCommand", "executeCommandChain"} /\ Caller.autoAtCall)
    => /\ \A i \in 1..Len(Caller.trace) :
            Failing(Caller.trace[i].st)
            => /\ i = Len(Caller.trace)
               /\ Caller.pc = "done"
               /\ Caller.outcome.kind = checkStatus(Caller.trace[i].st)
       /\ \A i \in 1..Len(Caller.trace) :
            (Caller.trace[i].ev = "viWrite" /\ Caller.trace[i].text = SYST_ERR)
            => /\ i > 1
               /\ \A k \in 1..(i - 1) : ~Failing(Caller.trace[k].st)

C28_Witness ==
    /\ Finished("executeCommand")
    /\ Caller.autoAtCall
    /\ Caller.spec = getTemperature
    /\ Len(Caller.trace) = 2
    /\ Caller.trace[2].ev = "viRead"
    /\ Caller.trace[2].st = "VI_ERROR_TMO"
    /\ Caller.outcome.kind = "TimeoutException"

\* the ResponseType a result type T of queryAndParse<T> stands for
ShapeOf(T) ==
    CASE T = "string" -> "STRING"
      [] T = "double" -> "DOUBLE"
      [] T = "int"    -> "INTEGER"
      [] T = "bool"   -> "BOOLEAN"
      [] OTHER        -> "NONE"

\* C22: queryAndParse<T> given a WRITE spec, or a T other than the one the
\* spec's responseType declares, is rejected: it does not return and decodes
\* no value.
C22_ShapeChecked ==
    (/\ Caller.name = "queryAndParse"
     /\ \/ Caller.spec.type = "WRITE"
        \/ ShapeOf(Caller.parseAs) # Caller.spec.responseType)
    => /\ Caller.value = NoVal
       /\ Caller.pc = "done" => Caller.outcome.kind # "ok"

\* C23: the CommandException of a failed double or int decode carries in its
\* message the response that could not be decoded and the command that
\* produced it.
C23_DecodeErrorContext ==
    (/\ ParseRan
     /\ Caller.spec.type = "QUERY"
     /\ Caller.parseAs \in {"double", "int"}
     /\ Caller.outcome.kind = "CommandException")
    => /\ Contains(Caller.outcome.text, Caller.response)
       /\ \/ Contains(Caller.outcome.text, Caller.command)
          \/ Contains(Caller.outcome.text, Caller.spec.command)

\* C29: a call of setWriteTermination leaves the termination character the
\* transport uses for reads (VI_ATTR_TERMCHAR) as it was.
C29_TerminatorsIndependent ==
    [][proc'["main"].name = "setWriteTermination"
       => visa'.attr.TERMCHAR = visa.attr.TERMCHAR]_vars

\* C26: after a connect that failed the session is Disconnected, holds no
\* handle, and no VISA session it opened is left open.
C26_FailedConnectDisconnected ==
    (Finished("connect") /\ Caller.outcome.kind # "ok")
    => /\ ~isConnected
       /\ sess.m_resourceManagerHandle = VI_NULL
       /\ visa.live = {}

\* C24: findResources fails only when viOpenDefaultRM fails: once the
\* resource manager is open it returns a list, the empty one when nothing
\* matches, whatever the status of the search.
C24_FindResourcesFailsOnlyOnInit ==
    (Finished("findResources") /\ ~Failing(Caller.trace[1].st))
    => /\ Caller.outcome.kind = "ok"
       /\ Caller.trace[2].st = "VI_ERROR_RSRC_NFOUND" => Caller.outcome.text = <<>>

\* C30 as stated: no transport call of an asynchronous query is made on a
\* handle that has been closed.
C30_Original ==
    \A t \in Tasks :
        \A i \in 1..Len(proc[t].trace) :
            proc[t].trace[i].st # "VI_ERROR_INV_OBJECT"

\* C30: an asynchronous query tests isConnected before its write and before
\* its read; when the test finds the session Disconnected it fails with
\* ConnectionException and makes no call, otherwise it goes on to the call.
\* The call is made on the handle the session holds at that moment: it fails
\* with the library's invalid-session status exactly when a disconnect has
\* closed that handle since the test.
C30_TestedBeforeCall ==
    [][\A t \in Tasks :
         /\ (proc[t].pc = "chk" /\ proc'[t] # proc[t])
            => IF isConnected
               THEN proc'[t] = [proc[t] EXCEPT !.pc = "call"]
               ELSE /\ proc'[t].pc = "done"
                    /\ proc'[t].outcome.kind = "ConnectionException"
                    /\ proc'[t].trace = proc[t].trace
         /\ (/\ proc'[t].name = "asyncTask"
             /\ Len(proc'[t].trace) = Len(proc[t].trace) + 1
             /\ proc'[t].trace[Len(proc'[t].trace)].ev \in {"viWrite", "viRead"})
            => /\ proc[t].pc = "call"
               /\ proc'[t].trace[Len(proc'[t].trace)].st = "VI_ERROR_INV_OBJECT"
                    <=> sess.m_instrumentHandle \notin visa.live]_vars

C30_Witness ==
    /\ proc["t1"].name = "asyncTask"
    /\ proc["t1"].pc = "done"
    /\ Len(proc["t1"].trace) = 1
    /\ proc["t1"].trace[1].st = "VI_ERROR_INV_OBJECT"
    /\ proc["t1"].outcome.kind = "VisaException"
    /\ Finished("disconnect")

\* C21: a started asynchronous query always finishes, returning or throwing;
\* std::future::get hands the caller the outcome the task ended with, only
\* once the task has ended, and no step other than the task's own changes the
\* task's operation.
C21_AsyncFinishes ==
    /\ \A t \in Tasks : (proc[t].pc # "idle") ~> (proc[t].pc = "done")
    /\ [][\A t \in Tasks :
            /\ (proc'["main"].name = "get" /\ proc'["main"].future = t
                /\ proc'["main"] # proc["main"])
               => /\ proc[t].pc = "done"
                  /\ proc'["main"].outcome = proc[t].outcome
                  /\ proc'["main"].trace = proc[t].trace
            /\ (proc[t].pc \notin {"idle", "done"} /\ proc'[t] # proc[t])
               => /\ proc'[t].name = proc[t].name
                  /\ proc'[t].command = proc[t].command
                  /\ proc'[t].pc # "idle"
                  /\ SubSeq(proc'[t].trace, 1, Len(proc[t].trace)) = proc[t].trace]_vars

C21_Witness ==
    /\ Caller.name = "get"
    /\ Caller.future = "t1"
    /\ Caller.pc = "done"
    /\ Caller.outcome.kind = "TimeoutException"
    /\ Len(Caller.trace) = 2

\* the move in this step took the connection of the object s to the object d:
\* d' holds what s held, s' holds nothing, what d held has been closed and
\* nothing else has
Transferred(s, d, sAfter, dAfter) ==
    /\ ~isConnectedS(sAfter)
    /\ Handles(sAfter) = {}
    /\ isConnectedS(dAfter) <=> isConnectedS(s)
    /\ dAfter.m_instrumentHandle = s.m_instrumentHandle
    /\ dAfter.m_resourceManagerHandle = s.m_resourceManagerHandle
    /\ visa'.live = visa.live \ Handles(d)

\* C25: a move construction or move assignment leaves the source
\* Disconnected and the destination Connected exactly when the source was,
\* holding the source's handles; the destination's previous connection is
\* closed; at all times no handle is held by both objects and every open
\* handle is held by one of them.
C25_MoveTransfersOwnership ==
    /\ [](/\ Handles(sess) \cap Handles(other.obj) = {}
          /\ visa.live \subseteq Handles(sess) \cup Handles(other.obj))
    /\ [][/\ proc'["main"].name \in {"moveConstruct", "moveAssign"}
             => Transferred(sess, other.obj, sess', other'.obj)
          /\ proc'["main"].name = "moveAssignBack"
             => Transferred(other.obj, sess, other'.obj, sess')]_vars

C25_Witness ==
    /\ Finished("moveAssign")
    /\ ~isConnected
    /\ other.obj.m_resourceManagerHandle = 3
    /\ other.obj.m_instrumentHandle = 4
    /\ visa.live = {3, 4}

\* the object s holds both of its handles or none
Paired(s) == s.m_resourceManagerHandle # VI_NULL <=> s.m_instrumentHandle # VI_NULL

\* C27: between operations each object holds a resource-manager handle
\* exactly when it holds an instrument handle; the handles held are open and
\* no other handle is, so that a Disconnected or destroyed object leaves
\* nothing open; a handle is closed only by a step of the object that held
\* it, which holds it no longer.
C27_HandlePairing ==
    /\ [](/\ Paired(sess)
          /\ Paired(other.obj)
          /\ ~other.alive => Handles(other.obj) = {}
          /\ visa.live = Handles(sess) \cup Handles(other.obj))
    /\ [][\A h \in visa.live \ visa'.live :
            /\ h \in Handles(sess) \cup Handles(other.obj)
            /\ h \notin Handles(sess') \cup Handles(other'.obj)]_vars

C27_Witness ==
    /\ Finished("~VisaInterface")
    /\ ~other.alive
    /\ isConnected
    /\ sess.m_resourceManagerHandle = 3
    /\ visa.live = {3, 4}

====
